---- MODULE Spec2Model ----
(***************************************************************************)
(* State-machine model of HabitatSim                                       *)
(* (src/habitat/sims/habitat_simulator/habitat_simulator.py): the scene    *)
(* reconfiguration lifecycle, the object placement sampler and the         *)
(* geodesic-distance query with its per-episode cache.                     *)
(*                                                                         *)
(* The native engine (habitat_sim.Simulator) is not part of the source; it *)
(* is represented by the state its capability surface exposes: the set of  *)
(* rigid objects with their motion type and transform, the template        *)
(* manager, the pathfinder (is_loaded) and the agent.  Whatever the engine *)
(* decides on its own (contact tests, random navigable points, whether a   *)
(* navmesh build succeeds, which instance id a new object gets) is a       *)
(* nondeterministic choice.                                                *)
(*                                                                         *)
(* Python's None is written as the empty tuple <<>> where the value is a   *)
(* tuple, and as 0 where it is an id.  Lengths are in hundredths of a      *)
(* unit, so that the collision margin 0.04 is the integer 4.               *)
(***************************************************************************)
EXTENDS Integers, Sequences, FiniteSets, TLC

VARIABLES
    pc,                 \* position of the single (synchronous) thread of control
    habitat_config,     \* self.habitat_config
    sim_config,         \* self.sim_config
    current_scene,      \* self._current_scene
    is_same_scene,      \* local of reconfigure
    engine,             \* the engine instance: [open, scene, log of the last reconfigure]
    objects,            \* engine: existing object id -> rigid object state
    templates,          \* engine: registered template handle -> attributes
    nav,                \* engine: pathfinder [is_loaded, dirty]
    agent,              \* engine: agent state
    sim_object_to_objid_mapping,
    objid_to_sim_object_mapping,
    obj_sem_id_to_sem_category_mapping,
    obj_index,          \* loop position of _initialize_THDA_scene (1-based)
    frame,              \* locals of the running/last sample_object_state call
    hist,               \* what the running/last top-level call has done so far
    ret,                \* outcome of the last top-level call
    cache,              \* episode -> episode._shortest_path_cache (0 is None)
    paths,              \* live MultiGoalShortestPath objects, by identity
    sensor_suite,       \* self._sensor_suite: the identities (uuids) of its sensors
    prev_sim_obs,       \* self._prev_sim_obs: the last raw engine output
    call,               \* what the running/last facade call asked of the engine
    calc                \* argument and result of the last pure helper applied

vars == <<pc, habitat_config, sim_config, current_scene, is_same_scene, engine,
          objects, templates, nav, agent, sim_object_to_objid_mapping,
          objid_to_sim_object_mapping, obj_sem_id_to_sem_category_mapping,
          obj_index, frame, hist, ret, cache, paths,
          sensor_suite, prev_sim_obs, call, calc>>

\* the state of the observation interface and of the pure helpers
facadeVars == <<sensor_suite, prev_sim_obs, call, calc>>

-----------------------------------------------------------------------------
(* Bounds of the model *)

\* largest number of fields of a configuration node, and of attributes of
\* the structure it is written to
MaxFields == 2
\* largest depth limit of a depth sensor's configuration
MaxDepth == 3
\* longest "objects" list of a scene-state descriptor
MaxObjects == 2
\* largest max_tries argument of a direct sample_object_state call
MaxTries == 2
\* the max_tries the scene initialization calls the sampler with: the default
\* of the signature, max_tries=100, scaled down so that the retry loop can be
\* explored exhaustively (the loop is uniform in its bound)
DefaultMaxTries == 2

(* Program constants *)

\* scene_collision_margin = 0.04
scene_collision_margin == 4
\* mn.Vector3(5), the scale of a template whose record carries no scale
DefaultScale == 5

None == <<>>
NoId == 0

Scenes == {"sceneA", "sceneB"}
\* template paths; only those of LoadableTemplates exist on disk
Templates == {"chair", "missing"}
LoadableTemplates == {"chair"}
StableIds == {1, 2}
Categories == {10}
\* object.position of a record that carries one
RecordPosition == <<1, 0>>
\* discretized angles about the up axis (quarter turns are enough here)
YawAngles == {0, 1}
\* points the pathfinder may return as random navigable points (all on the floor)
NavPoints == {<<0, 0>>, <<1, 0>>}
\* the bounding volume a caller may pass as bb, and the integer points inside it
BoundingBox == <<(<<0, 0>>), (<<1, 0>>)>>
\* xform_bb.size_y() / 2.0 of the objects of the model
HalfSizeY == 10
ObjIds == 0 .. (MaxObjects - 1)
MotionTypes == {"STATIC", "KINEMATIC", "DYNAMIC"}

\* episodes a caller may pass to geodesic_distance
Episodes == {"e1", "e2"}
\* identities of MultiGoalShortestPath objects: one per cache and one in use
PathIds == 1 .. (Cardinality(Episodes) + 1)
\* positions used in navigation queries, as coordinates along a corridor
QueryPoints == {0, 3}

\* START_POSITION / START_ROTATION of the agent configuration
StartPosition == <<2, 0>>
StartRotation == 1

\* sensor identities (uuids), one per sensor kind: color, depth, semantic
SensorUuids == {"rgb", "depth", "semantic"}
\* the SENSORS of the agent configurations of the model
DefaultSensors == {"rgb", "depth"}
SensorLists == {DefaultSensors, {"semantic"}}
\* body positions the engine places the agent at, and the positions a caller
\* may ask for: one of them is a position the engine refuses
PlaceablePositions == {<<0, 0>>, StartPosition}
AgentPositions == PlaceablePositions \cup {<<9, 9>>}
AgentRotations == {0, StartRotation}
\* rotation=None of get_observations_at
NoRotation == -1
\* the names of the discrete actions of step
StepActions == {"move_forward", "turn_left"}

-----------------------------------------------------------------------------
(* Small helpers for dictionaries with a growing key set *)

EmptyMap == <<>>

Put(f, k, v) == [x \in (DOMAIN f) \cup {k} |-> IF x = k THEN v ELSE f[x]]

Range(f) == {f[x] : x \in DOMAIN f}

-----------------------------------------------------------------------------
(* Inputs: configurations *)

\* rotation of a record: None or a coefficient list
RecordRotations == {None, <<"list", 1>>}

\* the object records of the model: a record without position has no use for
\* a rotation, and one record is enough for a template that cannot be loaded
ObjectRecords ==
    { r \in [object_template : Templates,
             position : {None, RecordPosition},
             rotation : RecordRotations,
             scale : {None},
             semantic_category_id : Categories,
             object_id : StableIds] :
        /\ r.position = None => r.rotation = None
        /\ r.object_template \notin LoadableTemplates =>
              r.position = None /\ r.object_id = 1 }

RECURSIVE SeqsUpTo(_, _)
SeqsUpTo(S, n) ==
    IF n = 0 THEN {<<>>}
    ELSE LET shorter == SeqsUpTo(S, n - 1)
         IN shorter \cup {Append(s, x) : s \in {t \in shorter : Len(t) = n - 1}, x \in S}

\* habitat_config.scene_state: absent/None, or a list whose first element has
\* "objects": None or a list of object records
SceneStates ==
    {[present |-> FALSE, objects_none |-> TRUE, objects |-> <<>>],
     [present |-> TRUE, objects_none |-> TRUE, objects |-> <<>>]}
    \cup {[present |-> TRUE, objects_none |-> FALSE, objects |-> s] :
            s \in SeqsUpTo(ObjectRecords, MaxObjects)}

\* the configurations of the model: the agent's start-state override is
\* combined with the descriptors that have no object
Configs ==
    { c \in [SCENE : Scenes, scene_state : SceneStates,
             IS_SET_START_STATE : BOOLEAN,
             SENSORS : {DefaultSensors}] :
        c.IS_SET_START_STATE => c.scene_state.objects = <<>> }

\* configurations without scene-state descriptor that differ in the sensors
\* the agent lists
ObsConfigs ==
    [SCENE : Scenes,
     scene_state : {[present |-> FALSE, objects_none |-> TRUE, objects |-> <<>>]},
     IS_SET_START_STATE : BOOLEAN,
     SENSORS : SensorLists]

-----------------------------------------------------------------------------
(* The engine's capability surface, as far as the wrapper uses it *)

\* a rigid object as add_object_by_handle creates it
NewObject(handle) ==
    [motion_type |-> "DYNAMIC", translation |-> <<0, 0>>, rotation |-> 0,
     semantic_id |-> 0, handle |-> handle]

\* mutation: the lookup never finds a registered handle
FileTemplateHandlesNone(tm, path) == {}

\* obj_templates_mgr.get_file_template_handles(object_template)
FileTemplateHandles(tm, path) == {h \in DOMAIN tm : h = path}

\* obj_templates_mgr.load_object_configs(object_template) finds something
LoadsTemplate(path) == path \in LoadableTemplates

\* quat_from_coeffs: coefficient list -> quaternion
quat_from_coeffs(r) == <<"quat", r[2]>>

\* quat_to_magnum: quaternion -> magnum quaternion
quat_to_magnum(r) == <<"magnum", r[2]>>

\* the yaw a magnum quaternion stands for
YawOf(q) == q[2]

\* y_rotation * sim.get_rotation(object_id), for rotations about the up axis
ComposeYaw(a, b) == (a + b) % Cardinality(YawAngles)

DefaultAgentState == [position |-> <<0, 0>>, rotation |-> 0, sensor_states |-> {"stale"}]

-----------------------------------------------------------------------------
(* Records of what a call has done; they are reset when a top-level call starts *)

NoFrame ==
    [caller |-> "none", object_id |-> 0, from_navmesh |-> TRUE,
     maintain_object_up |-> TRUE, max_tries |-> 0, bb |-> None,
     tries |-> 0, valid_placement |-> FALSE, pre_pose |-> <<>>]

NoHist ==
    [sampler_calls |-> 0,           \* invocations of sample_object_state
     draws |-> 0,                   \* random points drawn by the sampler call
     contact_tests |-> 0,           \* contact tests of the sampler call
     transform_writes |-> 0,        \* set_translation / set_rotation of the sampler call
     clear_attempts |-> 0,          \* attempts whose contact test reported no contact
     last_contact |-> FALSE,        \* result of the most recent contact test
     last_pose |-> <<>>,            \* pose at the end of the most recent attempt
     moved |-> FALSE,               \* the call left the object at another pose
     result |-> "None"]             \* what the sampler call returned, or "raised"

NoRet == [op |-> "none", status |-> "none", value |-> "None"]

\* no agent state (the local current_state outside get_observations_at)
NoAgentState == [position |-> None, rotation |-> NoRotation, sensor_states |-> {}]

NoCall ==
    [set_state_calls |-> <<>>,      \* agent.set_state calls, in order
     sensor_queries |-> 0,          \* raw outputs the engine produced
     current_state |-> NoAgentState,  \* local of get_observations_at
     args |-> <<>>,                 \* arguments of the call
     rendered |-> {},               \* sensors with a buffer in the last raw output
     collided_before |-> FALSE]     \* previous_step_collided when the call began

\* self._prev_sim_obs = None
NoSimObs == [set |-> FALSE, buffers |-> {}, has_collided |-> FALSE, collided |-> FALSE]

NoCalc == [op |-> "none"]

Pose(o) == <<o.translation, o.rotation>>

-----------------------------------------------------------------------------
(* Pieces of the wrapper's code *)

\* mutation: the sensor specifications are built from the sensors the
\* configuration lists
create_sim_config_from_listed(cfg, suite) ==
    [scene_id |-> cfg.SCENE, sensor_specifications |-> cfg.SENSORS]

\* create_sim_config(_sensor_suite): sim_config.scene_id = habitat_config.SCENE,
\* and one sensor specification per sensor of the suite, with its uuid
create_sim_config(cfg, suite) ==
    [scene_id |-> cfg.SCENE, sensor_specifications |-> suite]

\* is_same_scene = habitat_config.SCENE == self._current_scene
IsSameScene(cfg, cur) == cfg.SCENE = cur

\* mutation: the sensor states of the current state are handed on
NewStateKeepsSensors(a, position, rotation) ==
    [a EXCEPT !.position = position, !.rotation = rotation]

\* lines 672-681: the state set_agent_state hands to the engine: the current
\* state with the body pose replaced and the sensor states cleared
NewState(a, position, rotation) ==
    [a EXCEPT !.position = position, !.rotation = rotation, !.sensor_states = {}]

\* the engine's agent.set_state: the agent takes the state, unless the engine
\* cannot place the body there, and then the agent keeps its previous state
Placeable(state) == state.position \in PlaceablePositions

AgentSetState(a, new_state) == IF Placeable(new_state) THEN new_state ELSE a

\* set_agent_state: the agent after the call
set_agent_state(a, position, rotation) ==
    AgentSetState(a, NewState(a, position, rotation))

\* line 683: what set_agent_state returns
SetAgentStateReturns(placed) == TRUE

\* one agent.set_state call as the engine receives it (line 682)
Handed(a, position, rotation, reset_sensors) ==
    [state |-> NewState(a, position, rotation), reset_sensors |-> reset_sensors]

\* the set_state calls of _update_agents_state
UpdateCalls(cfg, a) ==
    IF cfg.IS_SET_START_STATE
    THEN <<Handed(a, StartPosition, StartRotation, TRUE)>>
    ELSE <<>>

\* _update_agents_state
update_agents_state(cfg, a) ==
    IF cfg.IS_SET_START_STATE THEN set_agent_state(a, StartPosition, StartRotation)
    ELSE a

TypeOK ==
    /\ pc \in {"idle", "init_loop", "init_sampled", "sample_loop"}
    /\ habitat_config \in Configs \cup ObsConfigs
    /\ current_scene \in Scenes
    /\ is_same_scene \in BOOLEAN
    /\ DOMAIN objects \subseteq ObjIds
    /\ DOMAIN templates \subseteq Templates
    /\ nav.is_loaded \in BOOLEAN

Constructed(cfg, loaded) ==
    /\ pc = "idle"
    /\ habitat_config = cfg
    /\ sensor_suite = cfg.SENSORS
    /\ sim_config = create_sim_config(cfg, cfg.SENSORS)
    /\ current_scene = sim_config.scene_id
    /\ is_same_scene = TRUE
    /\ engine = [open |-> TRUE, scene |-> sim_config.scene_id, log |-> <<>>]
    /\ objects = EmptyMap
    /\ templates = EmptyMap
    /\ nav = [is_loaded |-> loaded, dirty |-> {}]
    /\ agent = DefaultAgentState
    /\ sim_object_to_objid_mapping = EmptyMap
    /\ objid_to_sim_object_mapping = EmptyMap
    /\ obj_sem_id_to_sem_category_mapping = EmptyMap
    /\ obj_index = 0
    /\ frame = NoFrame
    /\ hist = NoHist
    /\ ret = NoRet
    /\ cache = [e \in Episodes |-> NoId]
    /\ paths = EmptyMap
    /\ prev_sim_obs = NoSimObs
    /\ call = NoCall

Init ==
    /\ \E cfg \in {c \in Configs : ~c.scene_state.present /\ ~c.IS_SET_START_STATE},
          loaded \in BOOLEAN :
           Constructed(cfg, loaded)
    /\ calc = NoCalc

\* construction with any of the configurations that differ in their sensors
InitSensors ==
    /\ \E cfg \in ObsConfigs : Constructed(cfg, TRUE)
    /\ calc = NoCalc

\* the same, on one scene
InitObs ==
    /\ \E cfg \in {c \in ObsConfigs : c.SCENE = "sceneA"} : Constructed(cfg, TRUE)
    /\ calc = NoCalc

-----------------------------------------------------------------------------
(* sample_object_state *)

\* lines 469-473: the STATIC check prints "aborting" and falls through; it
\* never makes the call return
StaticCheckReturns(motion_type) == FALSE

\* mutation: the pathfinder check is missing
PreconditionFailsNoPathfinderCheck(from_navmesh, is_loaded, bb) ==
    IF from_navmesh THEN FALSE ELSE bb = None

\* lines 474-482: the two precondition checks that return False
PreconditionFails(from_navmesh, is_loaded, bb) ==
    IF from_navmesh THEN ~is_loaded ELSE bb = None

\* what the checks of lines 468-482 decide: TRUE when the call returns False
\* before the retry loop
ReturnsBeforeLoop(motion_type, from_navmesh, is_loaded, bb) ==
    StaticCheckReturns(motion_type) \/ PreconditionFails(from_navmesh, is_loaded, bb)

\* mutation: the loop bound is off by one
LoopContinuesInclusive(valid_placement, tries, max_tries) ==
    ~valid_placement /\ tries <= max_tries

\* line 487: while not valid_placement and tries < max_tries
LoopContinues(valid_placement, tries, max_tries) ==
    ~valid_placement /\ tries < max_tries

\* line 495: np.random.uniform(bb.min, bb.max), on the integer grid
BoxPoints(bb) ==
    {<<x, y>> : x \in (bb[1][1]) .. (bb[2][1]), y \in (bb[1][2]) .. (bb[2][2])}

\* lines 491-495: where an attempt may put the object
SampleLocations(from_navmesh, bb) ==
    IF from_navmesh THEN NavPoints ELSE BoxPoints(bb)

\* lines 513-524: raise the object above the sampled point
Raised(translation, from_navmesh) ==
    IF from_navmesh
    THEN <<translation[1], translation[2] + HalfSizeY + scene_collision_margin>>
    ELSE translation

\* mutation: the contact test is read the wrong way round
AcceptsPlacementOnContact(valid_placement, contact) ==
    IF contact THEN TRUE ELSE valid_placement

\* lines 527-528: if not sim.contact_test(object_id): valid_placement = True
AcceptsPlacement(valid_placement, contact) ==
    IF ~contact THEN TRUE ELSE valid_placement

\* mutation: the result of the loop is reported the wrong way round
SampleResultInverted(valid_placement) == IF valid_placement THEN "False" ELSE "True"

\* lines 530-532: the value returned after the loop
SampleResult(valid_placement) == IF ~valid_placement THEN "False" ELSE "True"

\* the frame and the history of a call that has just been entered
EnteredFrame(id, obj, from_navmesh, maintain_object_up, max_tries, bb, caller) ==
    [caller |-> caller, object_id |-> id, from_navmesh |-> from_navmesh,
     maintain_object_up |-> maintain_object_up, max_tries |-> max_tries,
     bb |-> bb, tries |-> 0, valid_placement |-> FALSE, pre_pose |-> Pose(obj)]

EnteredHist(h) ==
    [h EXCEPT !.sampler_calls = @ + 1, !.draws = 0,
              !.contact_tests = 0, !.transform_writes = 0, !.clear_attempts = 0,
              !.last_contact = FALSE, !.last_pose = <<>>, !.moved = FALSE,
              !.result = "None"]

\* the frame of a call that is over: its locals are gone
LeftFrame(f) == [f EXCEPT !.pre_pose = <<>>]

\* a direct call of sample_object_state on an existing object, up to the loop
SampleObjectState(id, from_navmesh, maintain_object_up, max_tries, bb) ==
    /\ pc = "idle"
    /\ engine.open
    /\ id \in DOMAIN objects
    /\ IF ReturnsBeforeLoop(objects[id].motion_type, from_navmesh, nav.is_loaded, bb)
       THEN /\ hist' = [EnteredHist(NoHist) EXCEPT !.result = "False"]
            /\ frame' = LeftFrame(EnteredFrame(id, objects[id], from_navmesh,
                                               maintain_object_up, max_tries, bb, "api"))
            /\ pc' = "idle"
            /\ ret' = [op |-> "sample_object_state", status |-> "ok", value |-> "False"]
       ELSE /\ hist' = EnteredHist(NoHist)
            /\ frame' = EnteredFrame(id, objects[id], from_navmesh,
                                     maintain_object_up, max_tries, bb, "api")
            /\ pc' = "sample_loop"
            /\ ret' = [op |-> "sample_object_state", status |-> "running",
                       value |-> "None"]
    /\ UNCHANGED <<habitat_config, sim_config, current_scene, is_same_scene, engine,
                   objects, templates, nav, agent, sim_object_to_objid_mapping,
                   objid_to_sim_object_mapping, obj_sem_id_to_sem_category_mapping,
                   obj_index, cache, paths, facadeVars>>

\* lines 488-528: one iteration of the retry loop
SampleAttempt ==
    /\ pc = "sample_loop"
    /\ LoopContinues(frame.valid_placement, frame.tries, frame.max_tries)
    /\ \E sample_location \in SampleLocations(frame.from_navmesh, frame.bb),
          yaw \in YawAngles, contact \in BOOLEAN :
         LET id == frame.object_id
             o == objects[id]
         IN IF ~frame.maintain_object_up
            THEN \* line 510: ut is not a name of the module: NameError, after
                 \* set_translation has been applied
                 /\ objects' = [objects EXCEPT ![id].translation = sample_location]
                 /\ nav' = [nav EXCEPT !.dirty = @ \cup {<<"xform", id>>}]
                 /\ frame' = LeftFrame([frame EXCEPT !.tries = @ + 1])
                 /\ hist' = [hist EXCEPT !.draws = @ + 1, !.transform_writes = @ + 1,
                                         !.moved = Pose(objects'[id]) # frame.pre_pose,
                                         !.result = "raised"]
                 /\ pc' = "idle"
                 /\ ret' = [ret EXCEPT !.status = "raised", !.value = "NameError"]
            ELSE LET placed == [o EXCEPT
                                  !.translation = Raised(sample_location, frame.from_navmesh),
                                  !.rotation = ComposeYaw(yaw, o.rotation)]
                 IN /\ objects' = [objects EXCEPT ![id] = placed]
                    /\ nav' = [nav EXCEPT !.dirty = @ \cup {<<"xform", id>>}]
                    /\ frame' = [frame EXCEPT
                                   !.tries = @ + 1,
                                   !.valid_placement = AcceptsPlacement(@, contact)]
                    /\ hist' = [hist EXCEPT
                                  !.draws = @ + 1,
                                  !.transform_writes =
                                      @ + (IF frame.from_navmesh THEN 3 ELSE 2),
                                  !.contact_tests = @ + 1,
                                  !.clear_attempts = @ + (IF contact THEN 0 ELSE 1),
                                  !.last_contact = contact,
                                  !.last_pose = Pose(placed)]
                    /\ pc' = "sample_loop"
                    /\ ret' = ret
    /\ UNCHANGED <<habitat_config, sim_config, current_scene, is_same_scene, engine,
                   templates, agent, sim_object_to_objid_mapping,
                   objid_to_sim_object_mapping, obj_sem_id_to_sem_category_mapping,
                   obj_index, cache, paths, facadeVars>>

\* lines 530-532: the loop is over, the call returns
SampleReturn ==
    /\ pc = "sample_loop"
    /\ ~LoopContinues(frame.valid_placement, frame.tries, frame.max_tries)
    /\ IF frame.caller = "api"
       THEN /\ pc' = "idle"
            /\ ret' = [ret EXCEPT !.status = "ok",
                                  !.value = SampleResult(frame.valid_placement)]
       ELSE \* line 442: the scene initialization drops the returned value
            /\ pc' = "init_sampled"
            /\ ret' = ret
    /\ frame' = LeftFrame(frame)
    /\ hist' = [hist EXCEPT !.moved = Pose(objects[frame.object_id]) # frame.pre_pose,
                            !.result = SampleResult(frame.valid_placement)]
    /\ UNCHANGED <<habitat_config, sim_config, current_scene, is_same_scene, engine,
                   objects, templates, nav, agent, sim_object_to_objid_mapping,
                   objid_to_sim_object_mapping, obj_sem_id_to_sem_category_mapping,
                   obj_index, cache, paths, facadeVars>>

-----------------------------------------------------------------------------
(* _initialize_THDA_scene *)

\* lines 365-368: no usable scene_state in the configuration
NoSceneState(cfg) == ~cfg.scene_state.present

\* lines 393-417: the template table after the handle of a record is resolved:
\* an existing handle is reused; otherwise the path is loaded and registered
\* (loads counts how often that was done for the path in this engine)
ResolvedTemplates(tm, rec) ==
    IF FileTemplateHandles(tm, rec.object_template) # {}
    THEN tm
    ELSE Put(tm, rec.object_template,
             [scale |-> IF rec.scale # None THEN rec.scale ELSE DefaultScale,
              loads |-> IF rec.object_template \in DOMAIN tm
                        THEN tm[rec.object_template].loads + 1 ELSE 1])

\* mutation: the assertion is missing
TemplateAssertionNeverFails(tm, rec) == FALSE

\* lines 402-404: the assertion on the loaded template ids fails
TemplateAssertionFails(tm, rec) ==
    /\ FileTemplateHandles(tm, rec.object_template) = {}
    /\ ~LoadsTemplate(rec.object_template)

\* lines 434-440: the object with the explicit pose of its record
WithRecordPose(o, rec) ==
    LET moved == [o EXCEPT !.translation = rec.position]
        object_rot == IF rec.rotation # None /\ rec.rotation[1] = "list"
                      THEN quat_from_coeffs(rec.rotation)
                      ELSE rec.rotation
    IN IF object_rot # None
       THEN [moved EXCEPT !.rotation = YawOf(quat_to_magnum(object_rot))]
       ELSE moved

\* mutation: the motion type is not changed
NotFrozen(o) == o

\* line 449: self.set_object_motion_type(MotionType.STATIC, object_id)
Frozen(o) == [o EXCEPT !.motion_type = "STATIC"]

\* the events of writing an explicit pose (lines 435-440)
PoseEvents(id) == {<<"xform", id>>}

ReturnOk == [op |-> "reconfigure", status |-> "ok", value |-> "None"]

\* close() followed by super().reconfigure(sim_config), lines 340-341: the old
\* engine context is destroyed, a fresh one is instantiated for the new scene
Closed(e) == [e EXCEPT !.open = FALSE, !.log = Append(@, "close")]

Instantiated(e, scene_id) ==
    [e EXCEPT !.open = TRUE, !.scene = scene_id, !.log = Append(@, "instantiate")]

\* lines 338-341: what reconfigure does to the engine
EngineAfterSceneCheck(e, same, scene_id) ==
    IF ~same THEN Instantiated(Closed(e), scene_id) ELSE e

\* mutation: the requested scene is not recorded
CurrentSceneKept(same, cur, scene) == cur

\* lines 338-339: self._current_scene after the scene comparison
CurrentSceneAfter(same, cur, scene) == IF ~same THEN scene ELSE cur

\* mutation: the table is left as it is
KeptTable(t) == t

\* lines 345-347 and 377-379: a table is replaced by an empty dictionary
ResetTable(t) == EmptyMap

\* mutation: the navmesh is left as it is
recompute_navmesh_skipped(n, loaded) == n

\* recompute_navmesh(self.pathfinder, self.navmesh_settings, True): the mesh is
\* rebuilt from the scene as it is now; the engine reports whether it succeeded
recompute_navmesh(n, loaded) == [is_loaded |-> loaded, dirty |-> {}]

\* the pathfinder after lines 340-341 and 362: a new engine has a new mesh,
\* a reused engine has lost the objects of the earlier configuration
NavAfterRemoval(n, same, objs) ==
    IF same THEN [n EXCEPT !.dirty = @ \cup {<<"remove", id>> : id \in DOMAIN objs}]
    ELSE [n EXCEPT !.dirty = {}]

\* mutation: the objects of the earlier configuration are left in the engine
remove_no_objects(objs) == objs

\* lines 351-353: remove_all_objects(): every existing object is removed
remove_all_objects(objs) == EmptyMap

\* lines 335-381: the whole of reconfigure up to the loop over the object
\* records: scene comparison, engine close and re-instantiation, agent start
\* state, reset of the tables, removal of all objects, navmesh recompute
Reconfigure(cfg) ==
    /\ pc = "idle"
    /\ LET same == IsSameScene(cfg, current_scene)
       IN /\ is_same_scene' = same
          /\ habitat_config' = cfg
          /\ sim_config' = create_sim_config(cfg, sensor_suite)
          /\ current_scene' = CurrentSceneAfter(same, current_scene, cfg.SCENE)
          /\ engine' = EngineAfterSceneCheck([engine EXCEPT !.log = <<>>], same,
                                             sim_config'.scene_id)
          /\ templates' = IF ~same THEN EmptyMap ELSE templates
          /\ agent' = update_agents_state(cfg, IF ~same THEN DefaultAgentState
                                                ELSE agent)
    /\ sim_object_to_objid_mapping' = ResetTable(sim_object_to_objid_mapping)
    /\ objid_to_sim_object_mapping' = ResetTable(objid_to_sim_object_mapping)
    /\ obj_sem_id_to_sem_category_mapping' =
         ResetTable(obj_sem_id_to_sem_category_mapping)
    /\ objects' = remove_all_objects(IF IsSameScene(cfg, current_scene)
                                     THEN objects ELSE EmptyMap)
    /\ \E loaded \in BOOLEAN :
         nav' = recompute_navmesh(
                    NavAfterRemoval(nav, IsSameScene(cfg, current_scene), objects),
                    loaded)
    /\ frame' = NoFrame
    /\ hist' = NoHist
    /\ IF NoSceneState(cfg) \/ cfg.scene_state.objects_none
       THEN pc' = "idle" /\ ret' = ReturnOk /\ obj_index' = 0
       ELSE /\ pc' = "init_loop"
            /\ ret' = [op |-> "reconfigure", status |-> "running", value |-> "None"]
            /\ obj_index' = 1
    /\ call' = [NoCall EXCEPT !.set_state_calls =
                   UpdateCalls(cfg, IF IsSameScene(cfg, current_scene)
                                    THEN agent ELSE DefaultAgentState)]
    /\ UNCHANGED <<cache, paths, sensor_suite, prev_sim_obs, calc>>

\* lines 382-449: one object record, up to the end of the iteration or to the
\* call of the placement sampler
InitObject ==
    /\ pc = "init_loop"
    /\ obj_index <= Len(habitat_config.scene_state.objects)
    /\ LET rec == habitat_config.scene_state.objects[obj_index]
       IN IF TemplateAssertionFails(templates, rec)
          THEN /\ pc' = "idle"
               /\ ret' = [ret EXCEPT !.status = "raised", !.value = "AssertionError"]
               /\ UNCHANGED <<objects, templates, nav, sim_object_to_objid_mapping,
                              objid_to_sim_object_mapping,
                              obj_sem_id_to_sem_category_mapping, obj_index, frame, hist>>
          ELSE \E object_id \in ObjIds \ DOMAIN objects :
                 LET added == [NewObject(rec.object_template) EXCEPT
                                 !.semantic_id = rec.object_id]
                 IN /\ templates' = ResolvedTemplates(templates, rec)
                    /\ sim_object_to_objid_mapping' =
                         Put(sim_object_to_objid_mapping, object_id, rec.object_id)
                    /\ objid_to_sim_object_mapping' =
                         Put(objid_to_sim_object_mapping, rec.object_id, object_id)
                    /\ obj_sem_id_to_sem_category_mapping' =
                         Put(obj_sem_id_to_sem_category_mapping, rec.object_id,
                             rec.semantic_category_id)
                    /\ ret' = ret
                    /\ IF rec.position # None
                       THEN /\ objects' = Put(objects, object_id,
                                              Frozen(WithRecordPose(added, rec)))
                            /\ nav' = [nav EXCEPT !.dirty =
                                         @ \cup {<<"add", object_id>>}
                                           \cup PoseEvents(object_id)
                                           \cup {<<"motion", object_id>>}]
                            /\ obj_index' = obj_index + 1
                            /\ pc' = "init_loop"
                            /\ UNCHANGED <<frame, hist>>
                       ELSE \* line 442: self.sample_object_state(object_id)
                            /\ objects' = Put(objects, object_id, added)
                            /\ nav' = [nav EXCEPT !.dirty = @ \cup {<<"add", object_id>>}]
                            /\ obj_index' = obj_index
                            /\ IF ReturnsBeforeLoop(added.motion_type, TRUE,
                                                    nav.is_loaded, None)
                               THEN /\ pc' = "init_sampled"
                                    /\ hist' = [EnteredHist(hist) EXCEPT
                                                  !.result = "False"]
                                    /\ frame' = LeftFrame(EnteredFrame(
                                           object_id, added, TRUE, TRUE,
                                           DefaultMaxTries, None, "init"))
                               ELSE /\ pc' = "sample_loop"
                                    /\ hist' = EnteredHist(hist)
                                    /\ frame' = EnteredFrame(
                                           object_id, added, TRUE, TRUE,
                                           DefaultMaxTries, None, "init")
    /\ UNCHANGED <<habitat_config, sim_config, current_scene, is_same_scene, engine,
                   agent, cache, paths, facadeVars>>

\* mutation: a failed placement ends the initialization with an error
AfterPlacementChecked(result) == IF result = "False" THEN "raise" ELSE "proceed"

\* line 442: self.sample_object_state(object_id) is a statement: the value the
\* sampler returns is not looked at
AfterPlacement(result) == "proceed"

\* lines 443-449: after the sampler: recompute the navmesh, freeze the object
InitAfterSample ==
    /\ pc = "init_sampled"
    /\ IF AfterPlacement(hist.result) = "raise"
       THEN /\ pc' = "idle"
            /\ ret' = [ret EXCEPT !.status = "raised", !.value = "PlacementError"]
            /\ UNCHANGED <<nav, objects, obj_index>>
       ELSE /\ \E loaded \in BOOLEAN :
                 nav' = [recompute_navmesh(nav, loaded) EXCEPT
                           !.dirty = @ \cup {<<"motion", frame.object_id>>}]
            /\ objects' = [objects EXCEPT ![frame.object_id] = Frozen(@)]
            /\ obj_index' = obj_index + 1
            /\ pc' = "init_loop"
            /\ ret' = ret
    /\ UNCHANGED <<habitat_config, sim_config, current_scene, is_same_scene, engine,
                   templates, agent, sim_object_to_objid_mapping,
                   objid_to_sim_object_mapping, obj_sem_id_to_sem_category_mapping,
                   frame, hist, cache, paths, facadeVars>>

\* lines 454-457: all records done: the final navmesh recompute, and return
InitFinish ==
    /\ pc = "init_loop"
    /\ obj_index > Len(habitat_config.scene_state.objects)
    /\ \E loaded \in BOOLEAN : nav' = recompute_navmesh(nav, loaded)
    /\ pc' = "idle"
    /\ ret' = ReturnOk
    /\ UNCHANGED <<habitat_config, sim_config, current_scene, is_same_scene, engine,
                   objects, templates, agent, sim_object_to_objid_mapping,
                   objid_to_sim_object_mapping, obj_sem_id_to_sem_category_mapping,
                   obj_index, frame, hist, cache, paths, facadeVars>>

-----------------------------------------------------------------------------
(* Direct use of the inherited engine interface *)

\* set_object_motion_type(motion_type, object_id), called by the user
SetObjectMotionType(motion_type, id) ==
    /\ pc = "idle"
    /\ engine.open
    /\ id \in DOMAIN objects
    /\ objects[id].motion_type # motion_type
    /\ objects' = [objects EXCEPT ![id].motion_type = motion_type]
    /\ nav' = [nav EXCEPT !.dirty = @ \cup {<<"motion", id>>}]
    /\ pc' = "idle"
    /\ frame' = NoFrame
    /\ hist' = NoHist
    /\ ret' = [op |-> "set_object_motion_type", status |-> "ok", value |-> "None"]
    /\ UNCHANGED <<habitat_config, sim_config, current_scene, is_same_scene, engine,
                   templates, agent, sim_object_to_objid_mapping,
                   objid_to_sim_object_mapping, obj_sem_id_to_sem_category_mapping,
                   obj_index, cache, paths, facadeVars>>

-----------------------------------------------------------------------------

(* The observation interface: reset, step, render, get_observations_at *)

\* the raw output of get_sensor_observations() and of the engine's reset():
\* one buffer per sensor the engine rendered, and no "collided" entry
SensorObservations(rendered) ==
    [set |-> TRUE, buffers |-> rendered, has_collided |-> FALSE, collided |-> FALSE]

\* the raw output of the engine's step(action): the buffers and the collision
\* indicator of the step
StepObservations(rendered, collided) ==
    [set |-> TRUE, buffers |-> rendered, has_collided |-> TRUE, collided |-> collided]

\* line 738: self._prev_sim_obs.get("collided", False)
previous_step_collided(sim_obs) ==
    IF sim_obs.has_collided THEN sim_obs.collided ELSE FALSE

\* mutation: the assertion is missing
check_sim_obs_never_fails(obs_present) == FALSE

\* lines 178-182: assert obs is not None
check_sim_obs_fails(obs_present) == ~obs_present

\* get_observation of the three sensor kinds (lines 92-100, 129-151, 170-175):
\* each looks its uuid up in the raw output and passes what it finds to
\* check_sim_obs before it transforms it
get_observation_fails(uuid, sim_obs) ==
    CASE uuid = "rgb" -> check_sim_obs_fails(uuid \in sim_obs.buffers)
      [] uuid = "depth" -> check_sim_obs_fails(uuid \in sim_obs.buffers)
      [] uuid = "semantic" -> check_sim_obs_fails(uuid \in sim_obs.buffers)

\* SensorSuite.get_observations(sim_obs): one typed observation per sensor of
\* the suite; it fails when the transform of one of its sensors fails
SuiteFails(suite, sim_obs) == \E uuid \in suite : get_observation_fails(uuid, sim_obs)

\* what a call that ends with the suite's observations returns
Observed(op, suite, sim_obs) ==
    IF SuiteFails(suite, sim_obs)
    THEN [op |-> op, status |-> "raised", value |-> "AssertionError", keys |-> {}]
    ELSE [op |-> op, status |-> "ok", value |-> "observations", keys |-> suite]

\* mutation: reset does not store the raw output
ResetKeepsPrevSimObs(prev, sim_obs) == prev

\* line 303: self._prev_sim_obs = sim_obs
ResetPrevSimObs(prev, sim_obs) == sim_obs

\* the facade's variables a call of the observation interface leaves alone
sceneVars ==
    <<pc, habitat_config, sim_config, current_scene, is_same_scene, engine, objects,
      templates, nav, sim_object_to_objid_mapping, objid_to_sim_object_mapping,
      obj_sem_id_to_sem_category_mapping, obj_index, frame, hist, cache, paths,
      sensor_suite, calc>>

\* lines 298-304: reset(): the engine resets (the agent is back at its initial
\* state), a configured start state is applied and the buffers are queried
\* again, the raw output is stored and transformed
Reset ==
    /\ pc = "idle"
    /\ engine.open
    /\ \E rendered \in SUBSET sensor_suite :
         LET is_updated == habitat_config.IS_SET_START_STATE
             sim_obs == SensorObservations(rendered)
         IN /\ agent' = update_agents_state(habitat_config, DefaultAgentState)
            /\ call' = [NoCall EXCEPT
                          !.set_state_calls = UpdateCalls(habitat_config, DefaultAgentState),
                          !.sensor_queries = IF is_updated THEN 2 ELSE 1,
                          !.rendered = rendered,
                          !.collided_before = previous_step_collided(prev_sim_obs)]
            /\ prev_sim_obs' = ResetPrevSimObs(prev_sim_obs, sim_obs)
            /\ ret' = Observed("reset", sensor_suite, sim_obs)
    /\ UNCHANGED sceneVars

\* lines 306-310: step(action): the engine moves the agent and reports whether
\* it collided; the raw output is stored and transformed
Step(action) ==
    /\ pc = "idle"
    /\ engine.open
    /\ \E rendered \in SUBSET sensor_suite, collided \in BOOLEAN,
          position \in PlaceablePositions, rotation \in AgentRotations :
         LET sim_obs == StepObservations(rendered, collided)
         IN /\ agent' = [agent EXCEPT !.position = position, !.rotation = rotation]
            /\ call' = [NoCall EXCEPT !.sensor_queries = 1, !.rendered = rendered,
                                      !.args = <<action>>]
            /\ prev_sim_obs' = sim_obs
            /\ ret' = Observed("step", sensor_suite, sim_obs)
    /\ UNCHANGED sceneVars

\* mutation: render stores the raw output it queried
RenderStoresSimObs(prev, sim_obs) == sim_obs

\* lines 321-331: render keeps sim_obs in a local; self._prev_sim_obs is not
\* assigned
RenderPrevSimObs(prev, sim_obs) == prev

\* lines 312-331: render(mode): the buffers are queried and transformed, the
\* frame of the named sensor is returned
Render(mode) ==
    /\ pc = "idle"
    /\ engine.open
    /\ \E rendered \in SUBSET sensor_suite :
         LET sim_obs == SensorObservations(rendered)
             observations == Observed("render", sensor_suite, sim_obs)
         IN /\ ret' = IF observations.status # "ok" THEN observations
                      ELSE IF mode \notin observations.keys
                      THEN [observations EXCEPT !.status = "raised",
                                                !.value = "AssertionError", !.keys = {}]
                      ELSE [observations EXCEPT !.value = "frame", !.keys = {mode}]
            /\ call' = [NoCall EXCEPT !.sensor_queries = 1, !.rendered = rendered,
                                      !.args = <<mode>>]
            /\ prev_sim_obs' = RenderPrevSimObs(prev_sim_obs, sim_obs)
    /\ UNCHANGED agent
    /\ UNCHANGED sceneVars

\* lines 685-713: get_observations_at(position, rotation, keep_agent_at_new_pose)
GetObservationsAt(position, rotation, keep_agent_at_new_pose) ==
    /\ pc = "idle"
    /\ engine.open
    /\ LET current_state == agent
           relocates == ~(position = None \/ rotation = NoRotation)
           moved == IF relocates THEN set_agent_state(agent, position, rotation)
                    ELSE agent
           success == IF relocates THEN SetAgentStateReturns(moved = NewState(agent, position, rotation))
                      ELSE TRUE
           first_call == IF relocates
                         THEN <<Handed(agent, position, rotation, FALSE)>> ELSE <<>>
       IN IF success
          THEN \E rendered \in SUBSET sensor_suite :
                 LET sim_obs == SensorObservations(rendered)
                     observations == Observed("get_observations_at", sensor_suite, sim_obs)
                     restores == observations.status = "ok" /\ ~keep_agent_at_new_pose
                 IN /\ prev_sim_obs' = sim_obs
                    /\ ret' = observations
                    /\ agent' = IF restores
                                THEN set_agent_state(moved, current_state.position,
                                                     current_state.rotation)
                                ELSE moved
                    /\ call' = [set_state_calls |->
                                   IF restores
                                   THEN Append(first_call,
                                               Handed(moved, current_state.position,
                                                      current_state.rotation, FALSE))
                                   ELSE first_call,
                                sensor_queries |-> 1,
                                current_state |-> current_state,
                                args |-> <<position, rotation, keep_agent_at_new_pose>>,
                                rendered |-> rendered,
                                collided_before |-> previous_step_collided(prev_sim_obs)]
          ELSE /\ ret' = [op |-> "get_observations_at", status |-> "ok",
                          value |-> "None", keys |-> {}]
               /\ agent' = moved
               /\ call' = [set_state_calls |-> first_call, sensor_queries |-> 0,
                           current_state |-> current_state,
                           args |-> <<position, rotation, keep_agent_at_new_pose>>,
                           rendered |-> {},
                           collided_before |-> previous_step_collided(prev_sim_obs)]
               /\ prev_sim_obs' = prev_sim_obs
    /\ UNCHANGED sceneVars

\* lines 647-683: set_agent_state(position, rotation, reset_sensors=...), called
\* by the user
SetAgentState(position, rotation, reset_sensors) ==
    /\ pc = "idle"
    /\ engine.open
    /\ agent' = set_agent_state(agent, position, rotation)
    /\ call' = [NoCall EXCEPT
                  !.set_state_calls = <<Handed(agent, position, rotation, reset_sensors)>>,
                  !.args = <<position, rotation, reset_sensors>>]
    /\ ret' = [op |-> "set_agent_state", status |-> "ok",
               value |-> IF SetAgentStateReturns(agent' = NewState(agent, position, rotation))
                         THEN "True" ELSE "False",
               keys |-> {}]
    /\ prev_sim_obs' = prev_sim_obs
    /\ UNCHANGED sceneVars

\* mutation: an empty list is returned
ShortestPathReturnsEmpty(source, targets, agent_id) ==
    [op |-> "action_space_shortest_path", status |-> "ok", value |-> "[]", keys |-> {}]

\* lines 576-579: raise NotImplementedError(...)
ShortestPathOutcome(source, targets, agent_id) ==
    [op |-> "action_space_shortest_path", status |-> "raised",
     value |-> "NotImplementedError", keys |-> {}]

\* lines 560-579: action_space_shortest_path(source, targets, agent_id)
ActionSpaceShortestPath(source, targets, agent_id) ==
    /\ pc = "idle"
    /\ ret' = ShortestPathOutcome(source, targets, agent_id)
    /\ call' = NoCall
    /\ UNCHANGED <<agent, prev_sim_obs>>
    /\ UNCHANGED sceneVars

-----------------------------------------------------------------------------
(* geodesic_distance *)

\* position_b as the caller passes it: one point, or a list of points
GoalArguments ==
    {<<"point", p>> : p \in QueryPoints} \cup {<<"points", <<0, 3>>>>}

\* line 542: isinstance(position_b[0], (Sequence, np.ndarray))
IsListOfPoints(position_b) == position_b[1] = "points"

\* lines 542-547: requested_ends, a single goal becoming a one-element list
RequestedEnds(position_b) ==
    IF IsListOfPoints(position_b) THEN position_b[2] ELSE <<position_b[2]>>

\* mutation: the cache is never consulted
BuildsFreshPathAlways(episode, c) == TRUE

\* line 540: episode is None or episode._shortest_path_cache is None
BuildsFreshPath(episode, c) == episode = "none" \/ c[episode] = NoId

\* habitat_sim.MultiGoalShortestPath(): an object distinct from every live one
FreshPathId(c) == CHOOSE id \in PathIds : id \notin Range(c) /\
                      \A other \in PathIds \ Range(c) : id <= other

Abs(x) == IF x < 0 THEN -x ELSE x

\* self.pathfinder.find_path(path): distance from the start to the nearest end
FoundDistance(start, ends) ==
    LET ds == {Abs(start - ends[i]) : i \in DOMAIN ends}
    IN CHOOSE d \in ds : \A other \in ds : d <= other

\* line 555-556: the cache after the call
CacheAfter(episode, c, id) ==
    IF episode # "none" THEN [c EXCEPT ![episode] = id] ELSE c

\* mutation: the goals of the call are written into the cached query
ReusedPathWithNewEnds(path, position_b) ==
    [path EXCEPT !.requested_ends = RequestedEnds(position_b)]

\* lines 548-549: path = episode._shortest_path_cache: the cached query object
\* as it is, position_b is not read
ReusedPath(path, position_b) == path

\* lines 540-558
GeodesicDistance(position_a, position_b, episode) ==
    /\ pc = "idle"
    /\ LET fresh == BuildsFreshPath(episode, cache)
           id == IF fresh THEN FreshPathId(cache) ELSE cache[episode]
           path0 == IF fresh
                    THEN [requested_ends |-> RequestedEnds(position_b),
                          requested_start |-> None, geodesic_distance |-> None]
                    ELSE ReusedPath(paths[id], position_b)
           path1 == [path0 EXCEPT !.requested_start = <<position_a>>]
           path2 == [path1 EXCEPT !.geodesic_distance =
                        <<FoundDistance(position_a, path1.requested_ends)>>]
           cache1 == CacheAfter(episode, cache, id)
       IN /\ cache' = cache1
          /\ paths' = [i \in Range(cache1) \ {NoId} |->
                          IF i = id THEN path2 ELSE paths[i]]
          /\ ret' = [op |-> "geodesic_distance", status |-> "ok",
                     value |-> path2.geodesic_distance,
                     episode |-> episode, goal_is_list |-> IsListOfPoints(position_b),
                     built |-> fresh, path |-> id,
                     ends |-> path2.requested_ends, searches |-> 1]
    /\ frame' = NoFrame
    /\ hist' = NoHist
    /\ UNCHANGED <<pc, habitat_config, sim_config, current_scene, is_same_scene,
                   engine, objects, templates, nav, agent,
                   sim_object_to_objid_mapping, objid_to_sim_object_mapping,
                   obj_sem_id_to_sem_category_mapping, obj_index, facadeVars>>

\* Navigation queries on a simulator that is not being reconfigured
NextNav ==
    \E position_a \in QueryPoints, position_b \in GoalArguments,
       episode \in Episodes \cup {"none"} :
      GeodesicDistance(position_a, position_b, episode)

SpecNav == Init /\ [][NextNav]_vars

\* lines 596-597: sample_navigable_point(): a pass-through to the pathfinder
SampleNavigablePoint ==
    /\ pc = "idle"
    /\ engine.open
    /\ \E point \in NavPoints :
         ret' = [op |-> "sample_navigable_point", status |-> "ok", value |-> point]
    /\ frame' = NoFrame
    /\ hist' = NoHist
    /\ UNCHANGED <<pc, habitat_config, sim_config, current_scene, is_same_scene,
                   engine, objects, templates, nav, agent,
                   sim_object_to_objid_mapping, objid_to_sim_object_mapping,
                   obj_sem_id_to_sem_category_mapping, obj_index, cache, paths,
                   facadeVars>>

\* lines 599-600: is_navigable(point): a pass-through to the pathfinder
IsNavigable(point) ==
    /\ pc = "idle"
    /\ engine.open
    /\ ret' = [op |-> "is_navigable", status |-> "ok",
               value |-> IF point \in NavPoints THEN "True" ELSE "False"]
    /\ frame' = NoFrame
    /\ hist' = NoHist
    /\ UNCHANGED <<pc, habitat_config, sim_config, current_scene, is_same_scene,
                   engine, objects, templates, nav, agent,
                   sim_object_to_objid_mapping, objid_to_sim_object_mapping,
                   obj_sem_id_to_sem_category_mapping, obj_index, cache, paths,
                   facadeVars>>

-----------------------------------------------------------------------------
\* Scene lifecycle: reconfigure with every configuration of the model
Next ==
    \/ \E cfg \in Configs : Reconfigure(cfg)
    \/ InitObject
    \/ InitAfterSample
    \/ InitFinish
    \/ SampleAttempt
    \/ SampleReturn

Spec == Init /\ [][Next]_vars

\* configurations whose descriptor holds one object with an explicit position
SamplerConfigs ==
    {c \in Configs :
        /\ Len(c.scene_state.objects) = 1
        /\ \A i \in DOMAIN c.scene_state.objects :
             /\ c.scene_state.objects[i].object_template \in LoadableTemplates
             /\ c.scene_state.objects[i].position # None
             /\ c.scene_state.objects[i].rotation = None
             /\ c.scene_state.objects[i].object_id = 1}

\* Direct calls of the placement sampler on the objects of a small scene
NextSampler ==
    \/ \E cfg \in SamplerConfigs : Reconfigure(cfg)
    \/ InitObject
    \/ InitFinish
    \/ \E id \in ObjIds, from_navmesh \in BOOLEAN, maintain_object_up \in BOOLEAN,
          max_tries \in 0 .. MaxTries, bb \in {None, BoundingBox} :
         SampleObjectState(id, from_navmesh, maintain_object_up, max_tries, bb)
    \/ SampleAttempt
    \/ SampleReturn
    \/ \E motion_type \in MotionTypes, id \in ObjIds :
         SetObjectMotionType(motion_type, id)

SpecSampler == Init /\ [][NextSampler]_vars


\* the agent states a caller may name as source or target of a path
AgentStates ==
    [position : PlaceablePositions, rotation : AgentRotations, sensor_states : {{}}]

\* The observation interface used on a scene without placed objects
NextObs ==
    \/ Reset
    \/ \E action \in StepActions : Step(action)
    \/ \E mode \in SensorUuids : Render(mode)
    \/ \E position \in AgentPositions \cup {None},
          rotation \in AgentRotations \cup {NoRotation},
          keep_agent_at_new_pose \in BOOLEAN :
         GetObservationsAt(position, rotation, keep_agent_at_new_pose)
    \/ \E position \in AgentPositions, rotation \in AgentRotations,
          reset_sensors \in BOOLEAN :
         SetAgentState(position, rotation, reset_sensors)
    \/ \E source \in AgentStates, targets \in {<<>>} \cup {<<t>> : t \in AgentStates},
          agent_id \in {0} :
         ActionSpaceShortestPath(source, targets, agent_id)

SpecObs == InitObs /\ [][NextObs]_vars

\* The sensor suite across reconfigurations and observations
NextSensors ==
    \/ \E cfg \in ObsConfigs : Reconfigure(cfg)
    \/ Reset
    \/ Step("move_forward")
    \/ Render("rgb")
    \/ \E position \in {None, StartPosition} :
         GetObservationsAt(position, StartRotation, FALSE)

SpecSensors == InitSensors /\ [][NextSensors]_vars

\* configurations of one scene whose records carry no rotation; a template
\* that cannot be loaded ends the initialization, so it is the last record
LifecycleConfigs ==
    {c \in Configs :
        /\ c.SCENE = "sceneA"
        /\ ~c.IS_SET_START_STATE
        /\ \A i \in DOMAIN c.scene_state.objects :
             /\ c.scene_state.objects[i].rotation = None
             /\ c.scene_state.objects[i].object_id = 1
             /\ c.scene_state.objects[i].object_template \notin LoadableTemplates
                   => i = Len(c.scene_state.objects)}

\* Navigation and rendering queries made by the caller of reconfigure: the
\* calls are synchronous, so a query starts when no other call is running
NextLifecycle ==
    \/ \E cfg \in LifecycleConfigs : Reconfigure(cfg)
    \/ InitObject
    \/ InitAfterSample
    \/ InitFinish
    \/ SampleAttempt
    \/ SampleReturn
    \/ GeodesicDistance(0, <<"point", 3>>, "none")
    \/ SampleNavigablePoint
    \/ \E point \in {<<0, 0>>, <<9, 9>>} : IsNavigable(point)
    \/ Render("rgb")
    \/ GetObservationsAt(None, NoRotation, FALSE)

SpecLifecycle == Init /\ [][NextLifecycle]_vars

\* The same, with the agent's state set by the caller as well
NextRawOutput ==
    \/ NextSensors
    \/ \E position \in {StartPosition, <<9, 9>>} :
         SetAgentState(position, StartRotation, TRUE)

SpecRawOutput == InitSensors /\ [][NextRawOutput]_vars

\* The placement sampler's loop is a synchronous loop of a running thread: an
\* enabled iteration, or the return after the loop, is eventually executed
SpecSamplerFair ==
    SpecSampler /\ WF_vars(SampleAttempt) /\ WF_vars(SampleReturn)

-----------------------------------------------------------------------------
(* The configuration translator and the depth transform *)

\* A name is a word in one of its spellings; str.lower() gives the lower-case
\* spelling of the same word
Words == {"height", "gpu"}
Spellings == {"lower", "UPPER", "Mixed"}
Names == Words \X Spellings

\* str.lower()
Lower(name) == <<name[1], "lower">>

\* values of configuration fields: a scalar, or a nested Config node (its keys)
NestedNode == <<"config", {<<"gpu", "UPPER">>}>>
FieldValues == {<<"scalar", 7>>, NestedNode}
\* the value every attribute of the target has before the call
OldValue == <<"scalar", 0>>

\* config_from.items(): the fields of a node in order, no word twice
ConfigNodes ==
    {f \in SeqsUpTo(Names \X FieldValues, MaxFields) :
        \A i, j \in DOMAIN f : i # j => f[i][1][1] # f[j][1][1]}

\* config_to: the attributes the target structure exposes
TargetStructures ==
    {[n \in D |-> OldValue] : D \in {E \in SUBSET Names : Cardinality(E) <= MaxFields}}

\* lines 65-69: if_config_to_lower
if_config_to_lower(config) ==
    IF config[1] = "config"
    THEN <<"dict", {Lower(key) : key \in config[2]}>>
    ELSE config

\* mutation: the attribute is looked up and set under the field's own name
TargetNameAsWritten(attr) == attr

\* lines 72-73: the attribute name looked up and set: attr.lower()
TargetName(attr) == Lower(attr)

\* lines 72-73: one field: hasattr, setattr
overwrite_field(config_to, attr, value) ==
    IF TargetName(attr) \in DOMAIN config_to
    THEN [config_to EXCEPT ![TargetName(attr)] = if_config_to_lower(value)]
    ELSE config_to

\* lines 71-73: the loop over config_from.items()
RECURSIVE overwrite_from(_, _, _)
overwrite_from(config_from, config_to, i) ==
    IF i > Len(config_from) THEN config_to
    ELSE overwrite_from(config_from,
                        overwrite_field(config_to, config_from[i][1], config_from[i][2]),
                        i + 1)

\* lines 54-73: overwrite_config(config_from, config_to): config_to afterwards
overwrite_config(config_from, config_to) == overwrite_from(config_from, config_to, 1)

\* the configurations of a depth sensor and the raw values it may be given
DepthConfigs ==
    {c \in [MIN_DEPTH : 0 .. MaxDepth, MAX_DEPTH : 0 .. MaxDepth,
            NORMALIZE_DEPTH : BOOLEAN] : c.MIN_DEPTH <= c.MAX_DEPTH}
RawDepths == -1 .. (MaxDepth + 1)
\* the raw buffer is a numpy array or a torch tensor
BufferKinds == {"ndarray", "tensor"}

\* mutation: the raw value is not clipped
NotClipped(obs, a_min, a_max) == obs

\* np.clip(obs, a_min, a_max) and obs.clamp(a_min, a_max)
Clip(obs, a_min, a_max) ==
    IF obs < a_min THEN a_min ELSE IF obs > a_max THEN a_max ELSE obs

\* lines 112-127: the bounds (low, high) of the declared observation space
DepthObservationSpace(config) ==
    IF config.NORMALIZE_DEPTH THEN <<0, 1>>
    ELSE <<config.MIN_DEPTH, config.MAX_DEPTH>>

\* lines 134-151: the transformed value, as the fraction <<numerator, denominator>>
DepthGetObservation(config, kind, raw) ==
    LET obs == IF kind = "ndarray"
               THEN Clip(raw, config.MIN_DEPTH, config.MAX_DEPTH)
               ELSE Clip(raw, config.MIN_DEPTH, config.MAX_DEPTH)
    IN IF config.NORMALIZE_DEPTH
       THEN <<obs - config.MIN_DEPTH, config.MAX_DEPTH - config.MIN_DEPTH>>
       ELSE <<obs, 1>>

\* the helper's inputs are chosen at the start
HelperInputs ==
    {[op |-> "overwrite_config", done |-> FALSE, config_from |-> f, config_to |-> t,
      result |-> t] : f \in ConfigNodes, t \in TargetStructures}
    \cup
    {[op |-> "depth", done |-> FALSE, config |-> c, kind |-> k, raw |-> r,
      result |-> <<r, 1>>, space |-> DepthObservationSpace(c)] :
        c \in DepthConfigs, k \in BufferKinds, r \in RawDepths}

InitHelpers ==
    /\ Constructed(CHOOSE c \in ObsConfigs : c.SENSORS = DefaultSensors, TRUE)
    /\ calc \in HelperInputs

\* the variables a pure helper does not touch
wrapperVars ==
    <<pc, habitat_config, sim_config, current_scene, is_same_scene, engine, objects,
      templates, nav, agent, sim_object_to_objid_mapping, objid_to_sim_object_mapping,
      obj_sem_id_to_sem_category_mapping, obj_index, frame, hist, ret, cache, paths,
      sensor_suite, prev_sim_obs, call>>

OverwriteConfig ==
    /\ calc.op = "overwrite_config" /\ ~calc.done
    /\ calc' = [calc EXCEPT !.done = TRUE,
                            !.result = overwrite_config(calc.config_from, calc.config_to)]
    /\ UNCHANGED wrapperVars

DepthObservation ==
    /\ calc.op = "depth" /\ ~calc.done
    /\ calc' = [calc EXCEPT !.done = TRUE,
                            !.result = DepthGetObservation(calc.config, calc.kind, calc.raw)]
    /\ UNCHANGED wrapperVars

NextHelpers == OverwriteConfig \/ DepthObservation

SpecHelpers == InitHelpers /\ [][NextHelpers]_vars

-----------------------------------------------------------------------------
(* Properties of sample_object_state *)

\* a call of the sampler is over: a direct call has returned or raised, or the
\* call made by the scene initialization has handed control back to it
SamplerOver ==
    \/ pc = "idle" /\ ret.op = "sample_object_state"
    \/ pc = "init_sampled"

\* the call did nothing to the object and asked the engine nothing
NoSamplerEffect ==
    /\ frame.tries = 0
    /\ hist.draws = 0
    /\ hist.contact_tests = 0
    /\ hist.transform_writes = 0
    /\ ~hist.moved

\* C1 (as claimed): a call on an object whose motion type is STATIC returns
\* False and performs no set_translation or set_rotation on it, whatever
\* from_navmesh, maintain_object_up, max_tries and bb are.
C1_StaticObjectRefused ==
    (SamplerOver /\ objects[frame.object_id].motion_type = "STATIC")
        => (hist.result = "False" /\ hist.transform_writes = 0)

\* C2: a call with max_tries = 0 returns False without any placement attempt:
\* no point is drawn, no contact test is made, and the object keeps its
\* translation and rotation.
C2_ZeroTriesFails ==
    (SamplerOver /\ frame.max_tries = 0)
        => (hist.result = "False" /\ NoSamplerEffect)

\* C2 witness: a call with max_tries = 0 whose preconditions held has returned
C2_Witness ==
    /\ pc = "idle" /\ ret.op = "sample_object_state" /\ ret.status = "ok"
    /\ frame.max_tries = 0
    /\ frame.from_navmesh /\ nav.is_loaded
    /\ objects[frame.object_id].motion_type # "STATIC"
    /\ ret.value = "False"

\* the state invariants of the retry loop
C7_LoopInvariant ==
    /\ pc \in {"sample_loop", "init_sampled"} \/ (pc = "idle" /\ ret.op = "sample_object_state")
         => /\ frame.tries <= frame.max_tries
            /\ hist.draws = frame.tries
            /\ hist.contact_tests <= frame.tries
            /\ hist.clear_attempts <= 1
            /\ hist.clear_attempts = 1 =>
                 /\ ~hist.last_contact
                 /\ frame.valid_placement
                 /\ Pose(objects[frame.object_id]) = hist.last_pose
    /\ (SamplerOver /\ hist.result # "raised")
         => /\ (hist.result = "True") <=> (hist.clear_attempts = 1)
            /\ (hist.result = "False") <=> (hist.clear_attempts = 0)

\* C7: the sampler makes at most max_tries attempts and terminates; it returns
\* True exactly when an attempt's contact test reported no contact, that
\* attempt is the last one made, and the object is left at that attempt's pose.
C7_BoundedRetry ==
    /\ []C7_LoopInvariant
    /\ (pc = "sample_loop") ~> (pc # "sample_loop")

\* C7 witness: a direct call has succeeded at its second attempt
C7_Witness ==
    /\ pc = "idle" /\ ret.op = "sample_object_state" /\ ret.status = "ok"
    /\ ret.value = "True"
    /\ frame.tries = 2
    /\ hist.contact_tests = 2
    /\ hist.clear_attempts = 1

\* C8: when max_tries >= 1 and every attempt ends with a positive contact test,
\* the call returns False (it does not raise) and the object stays at the
\* translation and rotation of the last attempt.
C8_ExhaustedLeavesLastPose ==
    (/\ SamplerOver
     /\ frame.max_tries >= 1
     /\ hist.contact_tests = frame.max_tries
     /\ hist.clear_attempts = 0)
        => /\ hist.result = "False"
           /\ Pose(objects[frame.object_id]) = hist.last_pose

\* C8 witness: a direct call has used up two attempts and left the object at a
\* pose that is not the one it had before the call
C8_Witness ==
    /\ pc = "idle" /\ ret.op = "sample_object_state" /\ ret.status = "ok"
    /\ frame.max_tries = 2
    /\ hist.contact_tests = 2
    /\ hist.clear_attempts = 0
    /\ ret.value = "False"
    /\ hist.moved

\* the two unmet preconditions of lines 474-482, as seen when the call is over
\* (the sampler neither loads nor unloads the pathfinder)
UnmetPrecondition ==
    \/ frame.from_navmesh /\ ~nav.is_loaded
    \/ ~frame.from_navmesh /\ frame.bb = None

\* C9: with from_navmesh and no loaded pathfinder, or without from_navmesh and
\* without a bounding volume, the call returns False and has no effect: no
\* point drawn, no contact test, translation and rotation unchanged.
C9_UnmetPreconditionNoEffect ==
    (SamplerOver /\ UnmetPrecondition)
        => (hist.result = "False" /\ NoSamplerEffect)

\* C9 witness: a direct call without from_navmesh and without bb has returned
\* for an object that could have been moved
C9_Witness ==
    /\ pc = "idle" /\ ret.op = "sample_object_state" /\ ret.status = "ok"
    /\ ~frame.from_navmesh /\ frame.bb = None
    /\ frame.max_tries >= 1
    /\ objects[frame.object_id].motion_type = "DYNAMIC"
    /\ ret.value = "False"


-----------------------------------------------------------------------------
(* Properties of reconfigure and of the scene initialization *)

\* a step that is a call of reconfigure
ReconfigureStep == pc = "idle" /\ ret'.op = "reconfigure"

\* the number of object records of the current descriptor instantiated so far
InstantiatedRecords ==
    IF pc \in {"sample_loop", "init_sampled"} THEN obj_index
    ELSE IF obj_index = 0 THEN 0 ELSE obj_index - 1

\* the three tables hold the entries of the records instantiated by the
\* running or last reconfigure, and nothing else
TablesHoldDescriptor ==
    LET recs == SubSeq(habitat_config.scene_state.objects, 1, InstantiatedRecords)
        ids == {recs[i].object_id : i \in DOMAIN recs}
    IN /\ DOMAIN sim_object_to_objid_mapping \subseteq DOMAIN objects
       /\ Range(sim_object_to_objid_mapping) = ids
       /\ DOMAIN objid_to_sim_object_mapping = ids
       /\ Range(objid_to_sim_object_mapping) \subseteq DOMAIN objects
       /\ DOMAIN obj_sem_id_to_sem_category_mapping = ids
       /\ \A k \in ids :
            obj_sem_id_to_sem_category_mapping[k] \in
              {recs[i].semantic_category_id : i \in {j \in DOMAIN recs : recs[j].object_id = k}}

\* a reconfigure with the scene the simulator already has leaves the engine alone
C3_EngineReused ==
    (ReconfigureStep /\ habitat_config'.SCENE = current_scene)
        => /\ engine'.log = <<>>
           /\ engine'.open = engine.open
           /\ engine'.scene = engine.scene
           /\ templates' = templates
           /\ sim_object_to_objid_mapping' = EmptyMap
           /\ objid_to_sim_object_mapping' = EmptyMap
           /\ obj_sem_id_to_sem_category_mapping' = EmptyMap

\* C3: a reconfigure whose SCENE is the current scene, however often repeated,
\* neither closes nor re-instantiates the engine; the three id-mapping tables
\* are emptied by it and afterwards hold only entries of the objects of the
\* new configuration's scene-state descriptor.
C3_SameSceneResetsTables ==
    /\ [][C3_EngineReused]_vars
    /\ []((ret.op = "reconfigure" /\ is_same_scene) => TablesHoldDescriptor)

\* C3 witness: a reconfigure with an unchanged scene has returned, after
\* instantiating two objects of its descriptor in the engine it reused
C3_Witness ==
    /\ pc = "idle" /\ ret = ReturnOk
    /\ is_same_scene
    /\ engine.log = <<>>
    /\ Cardinality(DOMAIN sim_object_to_objid_mapping) = 2
    /\ Cardinality(DOMAIN objid_to_sim_object_mapping) = 2

\* a reconfigure with another scene: close, then one instantiation, and the
\* requested scene becomes the current one
C4_EngineReplaced ==
    (ReconfigureStep /\ habitat_config'.SCENE # current_scene)
        => /\ engine'.log = <<"close", "instantiate">>
           /\ engine'.open
           /\ engine'.scene = habitat_config'.SCENE
           /\ current_scene' = habitat_config'.SCENE

\* a reconfigure that asks for the scene of the configuration before it does
\* not touch the engine
C4_RepeatedSceneReused ==
    (ReconfigureStep /\ habitat_config'.SCENE = habitat_config.SCENE)
        => engine'.log = <<>>

\* C4: a reconfigure whose SCENE differs from the current scene closes the
\* engine and then instantiates it once, in that order, and records the
\* requested scene, so that the next reconfigure with that SCENE does not
\* instantiate again.
C4_SceneChangeReinstantiatesOnce ==
    [][C4_EngineReplaced /\ C4_RepeatedSceneReused]_vars

\* C4 witness: a reconfigure that changed the scene has returned
C4_Witness ==
    /\ pc = "idle" /\ ret = ReturnOk
    /\ ~is_same_scene
    /\ engine.log = <<"close", "instantiate">>
    /\ current_scene = habitat_config.SCENE

\* C5: when reconfigure returns normally, every object record of the
\* descriptor has its object in the engine and every object is STATIC, whether
\* its pose came from the record or from the sampler, and whether the sampler
\* succeeded or not.
C5_AllStaticAfterReconfigure ==
    (pc = "idle" /\ ret = ReturnOk)
        => /\ Cardinality(DOMAIN objects) = Len(habitat_config.scene_state.objects)
           /\ \A id \in DOMAIN objects : objects[id].motion_type = "STATIC"

\* C5 witness: reconfigure has returned with two objects, the last of which
\* the sampler failed to place
C5_Witness ==
    /\ pc = "idle" /\ ret = ReturnOk
    /\ Cardinality(DOMAIN objects) = 2
    /\ frame.caller = "init"
    /\ hist.result = "False"
    /\ hist.contact_tests = DefaultMaxTries

\* C6 (as claimed): whenever the scene initialization invokes the sampler, the
\* navmesh has been recomputed since the last insertion or removal of any
\* object other than the one being placed.
C6_NavmeshFreshAtSampling ==
    (pc \in {"sample_loop", "init_sampled"} /\ frame.caller = "init")
        => \A e \in nav.dirty :
             e[1] \in {"add", "remove"} => e[2] = frame.object_id

-----------------------------------------------------------------------------
(* Properties of geodesic_distance *)

\* a step that is a call of geodesic_distance
GeodesicStep == pc = "idle" /\ ret'.op = "geodesic_distance"

\* what a call does with the cache of the episode it is given
C10_CacheStep ==
    GeodesicStep =>
        LET e == ret'.episode
        IN /\ ret'.searches = 1
           /\ e = "none" => cache' = cache
           /\ e # "none" =>
                /\ \A other \in Episodes \ {e} : cache'[other] = cache[other]
                /\ cache'[e] # NoId
                /\ cache'[e] = ret'.path
                /\ paths'[cache'[e]].requested_ends = ret'.ends
                /\ cache[e] = NoId =>
                     /\ ret'.built
                     /\ ret'.path \notin Range(cache)
                     /\ ~ret'.goal_is_list => Len(ret'.ends) = 1
                /\ cache[e] # NoId =>
                     /\ ~ret'.built
                     /\ ret'.path = cache[e]

\* C10: with an episode whose cache is empty the call builds a fresh
\* multi-goal query (one goal becoming a one-element list), searches, and
\* stores the query in the cache; every later call with that episode searches
\* with the stored query object and leaves it in the cache; a call without an
\* episode writes no cache.
C10_EpisodeCache == [][C10_CacheStep]_vars

\* C10 witness: a call has searched with the query it found in the cache
C10_Witness ==
    /\ ret.op = "geodesic_distance"
    /\ ret.episode # "none"
    /\ ~ret.built
    /\ cache[ret.episode] = ret.path

-----------------------------------------------------------------------------
(* Properties of the observation interface *)

\* the last call was a reset, or a get_observations_at that returned observations
ObservedWithoutStep ==
    \/ ret.op = "reset"
    \/ ret.op = "get_observations_at" /\ ret.status = "ok" /\ ret.value = "observations"

\* C11: previous_step_collided is false right after every reset() and right
\* after every get_observations_at() that returned observations, whatever
\* came before, a step that collided included.
C11_NotCollidedWithoutStep ==
    ObservedWithoutStep => prev_sim_obs.set /\ ~previous_step_collided(prev_sim_obs)

\* a reset that followed a step that had collided
C11_Witness ==
    /\ ret.op = "reset"
    /\ call.collided_before
    /\ ~previous_step_collided(prev_sim_obs)

\* the body pose of an agent state
BodyPose(a) == <<a.position, a.rotation>>

\* the last call was a get_observations_at that returned (did not raise)
ObservedAt == ret.op = "get_observations_at" /\ ret.status = "ok"

\* C12 (as claimed): after get_observations_at returns, with
\* keep_agent_at_new_pose=False the agent has the body pose it had before the
\* call; with keep_agent_at_new_pose=True and both position and rotation given
\* it is at the given pose; with position or rotation omitted it has not moved.
C12_PoseAfterObserving ==
    ObservedAt =>
        LET position == call.args[1]
            rotation == call.args[2]
            keep_agent_at_new_pose == call.args[3]
            given == position # None /\ rotation # NoRotation
        IN /\ ~keep_agent_at_new_pose => BodyPose(agent) = BodyPose(call.current_state)
           /\ (keep_agent_at_new_pose /\ given) => BodyPose(agent) = <<position, rotation>>
           /\ ~given => BodyPose(agent) = BodyPose(call.current_state)

\* a step that is a call of get_observations_at whose relocation the engine
\* rejects
RejectedRelocation ==
    /\ pc = "idle"
    /\ ret'.op = "get_observations_at"
    /\ Len(call'.set_state_calls) > 0
    /\ ~Placeable(call'.set_state_calls[1].state)

\* C13 (as claimed): when the engine rejects the relocation to the requested
\* pose, get_observations_at returns None, takes no observation and leaves
\* the previous raw output as it was.
C13_RejectedRelocationReturnsNone ==
    [][RejectedRelocation =>
          /\ ret'.value = "None"
          /\ call'.sensor_queries = 0
          /\ prev_sim_obs' = prev_sim_obs]_vars

-----------------------------------------------------------------------------
(* Properties of the configuration translator and of the depth sensor *)

\* two names are equal up to case
SameIgnoringCase(a, b) == Lower(a) = Lower(b)

OverwriteDone == calc.op = "overwrite_config" /\ calc.done

\* C15 (as claimed): every attribute of the target whose name equals a source
\* field's name case-insensitively, whatever the spelling of the attribute's
\* own name, holds that field's value afterwards; a field without such an
\* attribute creates none and changes none.
C15_CaseInsensitiveOverwrite ==
    OverwriteDone =>
        LET from == calc.config_from
            to == calc.config_to
            out == calc.result
        IN /\ DOMAIN out = DOMAIN to
           /\ \A t \in DOMAIN to :
                 IF \E i \in DOMAIN from : SameIgnoringCase(t, from[i][1])
                 THEN \A i \in DOMAIN from :
                        SameIgnoringCase(t, from[i][1]) =>
                            out[t] = if_config_to_lower(from[i][2])
                 ELSE out[t] = to[t]

\* C15 (amended): an attribute of the target is overwritten exactly when its
\* name is the lower-case spelling of a source field's name, with the field's
\* value (a nested node as a dictionary with lower-cased keys); attributes
\* spelled otherwise are left alone, no attribute is created, unmatched fields
\* change nothing.
C15_LowerCaseOverwrite ==
    OverwriteDone =>
        LET from == calc.config_from
            to == calc.config_to
            out == calc.result
        IN /\ DOMAIN out = DOMAIN to
           /\ \A t \in DOMAIN to :
                 IF \E i \in DOMAIN from : Lower(from[i][1]) = t
                 THEN \A i \in DOMAIN from :
                        Lower(from[i][1]) = t => out[t] = if_config_to_lower(from[i][2])
                 ELSE out[t] = to[t]

\* a call with an upper-case field that overwrote the lower-case attribute, left
\* the upper-case attribute of the same word alone, and had a field without
\* any attribute
C15_Witness ==
    /\ OverwriteDone
    /\ Len(calc.config_from) = 2
    /\ calc.config_from[1] = <<(<<"height", "UPPER">>), NestedNode>>
    /\ calc.config_from[2][1][1] = "gpu"
    /\ DOMAIN calc.config_to = {<<"height", "lower">>, <<"height", "UPPER">>}
    /\ calc.result[<<"height", "lower">>] = <<"dict", {<<"gpu", "lower">>}>>
    /\ calc.result[<<"height", "UPPER">>] = OldValue

\* C16: with MIN_DEPTH < MAX_DEPTH the transformed depth value lies within
\* the bounds of the declared observation space for every raw value, and those
\* bounds are [0, 1] with normalization and [MIN_DEPTH, MAX_DEPTH] without.
C16_DepthWithinDeclaredBounds ==
    (calc.op = "depth" /\ calc.done /\ calc.config.MIN_DEPTH < calc.config.MAX_DEPTH) =>
        LET numerator == calc.result[1]
            denominator == calc.result[2]
            low == IF calc.config.NORMALIZE_DEPTH THEN 0 ELSE calc.config.MIN_DEPTH
            high == IF calc.config.NORMALIZE_DEPTH THEN 1 ELSE calc.config.MAX_DEPTH
        IN /\ denominator > 0
           /\ low * denominator <= numerator
           /\ numerator <= high * denominator
           /\ calc.space = <<low, high>>

\* a raw value beyond MAX_DEPTH, normalized to exactly 1
C16_Witness ==
    /\ calc.op = "depth" /\ calc.done
    /\ calc.config.NORMALIZE_DEPTH
    /\ calc.config.MIN_DEPTH < calc.config.MAX_DEPTH
    /\ calc.raw > calc.config.MAX_DEPTH
    /\ calc.result[1] = calc.result[2]

-----------------------------------------------------------------------------
(* Properties of the sensors, of the unsupported path query and of the tables *)

\* the last call was one that transforms a raw engine output
TransformedRawOutput ==
    /\ ret.op \in {"reset", "step", "render", "get_observations_at"}
    /\ call.sensor_queries > 0

\* C17: when the raw output has no entry for a sensor of the suite, of
\* whichever kind, reset, step, render and get_observations_at fail with the
\* assertion of check_sim_obs; an observation mapping that is returned has an
\* entry for every sensor of the suite.
C17_MissingBufferFails ==
    TransformedRawOutput =>
        /\ (\E uuid \in sensor_suite : uuid \notin call.rendered) =>
               (ret.status = "raised" /\ ret.value = "AssertionError")
        /\ (ret.status = "ok" /\ ret.value = "observations") =>
               (ret.keys = sensor_suite /\ sensor_suite \subseteq call.rendered)

\* a step whose raw output had the color buffer but not the depth buffer
C17_Witness ==
    /\ ret.op = "step"
    /\ "depth" \in sensor_suite
    /\ call.rendered = {"rgb"}
    /\ ret.status = "raised"

C19_SensorIdentitiesFixed ==
    [][/\ sensor_suite' = sensor_suite
       /\ ReconfigureStep => sim_config'.sensor_specifications = sensor_suite]_vars

\* a reconfigure that kept the engine, with a configuration that lists other
\* sensors than the suite has
C19_Witness ==
    /\ ret.op = "reconfigure" /\ ret.status = "ok"
    /\ engine.log = <<>>
    /\ habitat_config.SENSORS # sensor_suite
    /\ sim_config.sensor_specifications = sensor_suite
    /\ prev_sim_obs.set

\* the two id tables are inverses of each other
MutualInverses(s2o, o2s) ==
    /\ \A i \in DOMAIN s2o : s2o[i] \in DOMAIN o2s /\ o2s[s2o[i]] = i
    /\ \A k \in DOMAIN o2s : o2s[k] \in DOMAIN s2o /\ s2o[o2s[k]] = k

\* C20 (as claimed): whenever reconfigure returns normally the instance-id
\* table and the stable-id table are mutual inverses and the keys of the
\* instance-id table are the objects this reconfigure instantiated, also when
\* two records carry the same stable object id.
C20_TablesMutualInverses ==
    (pc = "idle" /\ ret = ReturnOk) =>
        /\ MutualInverses(sim_object_to_objid_mapping, objid_to_sim_object_mapping)
        /\ DOMAIN sim_object_to_objid_mapping = DOMAIN objects

-----------------------------------------------------------------------------
(* Properties of the lifecycle as a whole *)

\* the navigation and rendering queries
QueryOps ==
    {"geodesic_distance", "sample_navigable_point", "is_navigable", "render",
     "get_observations_at"}

\* a step that serves a query
QueryStep == ret'.op \in QueryOps

\* the last reconfigure has run to its end: there is no descriptor, or the loop
\* over the object records and the final navmesh recompute are done
ReconfigureCompleted ==
    obj_index = 0 \/ obj_index > Len(habitat_config.scene_state.objects)

\* the STABLE state of the lifecycle: no reconfigure is running and the scene
\* is the one a completed reconfigure built
Stable == pc = "idle" /\ ReconfigureCompleted

\* C21 (as claimed): navigation and rendering queries are served only in the
\* STABLE state, never against a scene that reconfigure has torn down and not
\* finished rebuilding.
C21_QueriesOnlyWhenStable == [][QueryStep => Stable]_vars

\* the scene initialization of a reconfigure is running
Initializing == ret.op = "reconfigure" /\ ret.status = "running"

\* the object the placement sampler has been called for and that the scene
\* initialization has not frozen yet
BeingPlaced(id) ==
    pc \in {"sample_loop", "init_sampled"} /\ frame.caller = "init" /\ id = frame.object_id

\* C22 (as claimed): while records of the descriptor are still to be
\* instantiated or placed, no object of this reconfigure is STATIC.
C22_StaticOnlyAfterAllPlaced ==
    (Initializing /\ obj_index <= Len(habitat_config.scene_state.objects))
        => \A id \in DOMAIN objects : objects[id].motion_type # "STATIC"

\* C22 (amended): each object is switched to STATIC at the end of its own loop
\* iteration: while the initialization runs, the object the sampler is placing
\* is not STATIC and every other object instantiated by this reconfigure is
\* STATIC already; when reconfigure returns, all are STATIC and the navmesh has
\* been recomputed after the last switch.
C22_StaticAfterEachPlacement ==
    /\ Initializing =>
         \A id \in DOMAIN objects :
            IF BeingPlaced(id) THEN objects[id].motion_type = "DYNAMIC"
            ELSE objects[id].motion_type = "STATIC"
    /\ (pc = "idle" /\ ret = ReturnOk) =>
         /\ \A id \in DOMAIN objects : objects[id].motion_type = "STATIC"
         /\ \A e \in nav.dirty : e[1] # "motion"

\* the sampler has made an attempt for the second object while the first one
\* is STATIC
C22_Witness ==
    /\ Initializing
    /\ pc = "sample_loop" /\ frame.caller = "init" /\ frame.tries >= 1
    /\ Cardinality(DOMAIN objects) = 2
    /\ objects[frame.object_id].motion_type = "DYNAMIC"
    /\ \E id \in DOMAIN objects : id # frame.object_id /\ objects[id].motion_type = "STATIC"

\* the objects in the engine are the instances of the records: one object per
\* record, with the record's template and stable id
MatchesDescriptor(objs, recs) ==
    \E f \in [DOMAIN recs -> DOMAIN objs] :
       /\ \A i, j \in DOMAIN recs : i # j => f[i] # f[j]
       /\ \A id \in DOMAIN objs : \E i \in DOMAIN recs : f[i] = id
       /\ \A i \in DOMAIN recs :
            /\ objs[f[i]].handle = recs[i].object_template
            /\ objs[f[i]].semantic_id = recs[i].object_id
            /\ sim_object_to_objid_mapping[f[i]] = recs[i].object_id

\* C23: whenever reconfigure returns normally the objects in the engine are
\* exactly the instances of the records of the current descriptor, one per
\* record, and none when there is no descriptor; nothing of an earlier
\* configuration is left, also when the engine is reused.
C23_OnlyDescriptorObjects ==
    (pc = "idle" /\ ret = ReturnOk) =>
        IF DOMAIN objects = {}
        THEN habitat_config.scene_state.objects = <<>>
        ELSE MatchesDescriptor(objects, habitat_config.scene_state.objects)

\* a reconfigure without descriptor has returned on an engine it reused and in
\* which an earlier configuration had instantiated a chair
C23_Witness ==
    /\ pc = "idle" /\ ret = ReturnOk
    /\ is_same_scene /\ engine.log = <<>>
    /\ ~habitat_config.scene_state.present
    /\ "chair" \in DOMAIN templates
    /\ DOMAIN objects = {}

\* the sampler called by the scene initialization has returned failure
PlacementFailed == pc = "init_sampled" /\ hist.result = "False"

\* the number of the first n records that carry no position
RECURSIVE SampledAmong(_, _)
SampledAmong(recs, n) ==
    IF n = 0 THEN 0
    ELSE SampledAmong(recs, n - 1) + (IF recs[n].position = None THEN 1 ELSE 0)

\* when the sampler has failed: the initialization has not raised, the object
\* exists at the pose of the last attempt and both id mappings are recorded;
\* the sampler has been invoked once for every record without position so far
C24_FailedPlacementState ==
    LET recs == habitat_config.scene_state.objects
        id == frame.object_id
    IN /\ PlacementFailed =>
            /\ ret.status = "running"
            /\ id \in DOMAIN objects
            /\ hist.contact_tests > 0 => Pose(objects[id]) = hist.last_pose
            /\ hist.contact_tests = 0 => Pose(objects[id]) = Pose(NewObject("any"))
            /\ sim_object_to_objid_mapping[id] = recs[obj_index].object_id
            /\ objid_to_sim_object_mapping[recs[obj_index].object_id] = id
            /\ hist.sampler_calls = SampledAmong(recs, obj_index)
       /\ (pc = "idle" /\ ret = ReturnOk) =>
            hist.sampler_calls = SampledAmong(recs, Len(recs))

\* the step after a failed placement: the initialization goes on to the next
\* record, the object keeps its pose, the sampler is not called again
C24_FailedPlacementStep ==
    PlacementFailed =>
        /\ pc' = "init_loop"
        /\ obj_index' = obj_index + 1
        /\ ret' = ret
        /\ frame.object_id \in DOMAIN objects'
        /\ Pose(objects'[frame.object_id]) = Pose(objects[frame.object_id])
        /\ hist'.sampler_calls = hist.sampler_calls

\* C24: when the sampler returns failure for an object during the scene
\* initialization, reconfigure does not raise and does not call the sampler
\* again for it; the object stays at its last attempted pose with both id
\* mappings recorded, and the initialization proceeds with the next record.
C24_FailedPlacementTolerated ==
    []C24_FailedPlacementState /\ [][C24_FailedPlacementStep]_vars

\* reconfigure has returned: the sampler failed for the first record after all
\* its attempts, the second record was instantiated after it
C24_Witness ==
    /\ pc = "idle" /\ ret = ReturnOk
    /\ Len(habitat_config.scene_state.objects) = 2
    /\ habitat_config.scene_state.objects[1].position = None
    /\ habitat_config.scene_state.objects[2].position # None
    /\ hist.result = "False" /\ hist.contact_tests = DefaultMaxTries
    /\ hist.sampler_calls = 1
    /\ Cardinality(DOMAIN objects) = 2
    /\ Pose(objects[frame.object_id]) = hist.last_pose

\* the scene initialization is about to handle a record whose template is
\* neither registered nor on disk
UnloadableRecordNext ==
    /\ pc = "init_loop"
    /\ obj_index <= Len(habitat_config.scene_state.objects)
    /\ habitat_config.scene_state.objects[obj_index].object_template
          \notin (DOMAIN templates \cup LoadableTemplates)

\* that record makes the initialization fail with the assertion, before an
\* object is added for it, and the failure undoes nothing
C25_AssertionStep ==
    UnloadableRecordNext =>
        /\ pc' = "idle"
        /\ ret'.op = "reconfigure" /\ ret'.status = "raised"
        /\ ret'.value = "AssertionError"
        /\ objects' = objects
        /\ templates' = templates
        /\ sim_object_to_objid_mapping' = sim_object_to_objid_mapping
        /\ objid_to_sim_object_mapping' = objid_to_sim_object_mapping
        /\ obj_sem_id_to_sem_category_mapping' = obj_sem_id_to_sem_category_mapping
        /\ nav' = nav

\* after the failure the objects of the earlier records are in the engine with
\* their entries in the tables, and the navmesh has not been recomputed since
\* the last of them was frozen
C25_PartialScene ==
    (pc = "idle" /\ ret.op = "reconfigure" /\ ret.status = "raised") =>
        LET earlier == SubSeq(habitat_config.scene_state.objects, 1, obj_index - 1)
        IN /\ MatchesDescriptor(objects, earlier)
           /\ DOMAIN sim_object_to_objid_mapping = DOMAIN objects
           /\ DOMAIN objid_to_sim_object_mapping = {earlier[i].object_id : i \in DOMAIN earlier}
           /\ DOMAIN obj_sem_id_to_sem_category_mapping = DOMAIN objid_to_sim_object_mapping
           /\ obj_index > 1 => nav.dirty # {}

\* C25: a record whose template can be neither resolved nor loaded makes the
\* scene initialization fail with an assertion before the object is
\* instantiated, and nothing is rolled back: the objects of the earlier records
\* stay in the engine with their id-mapping entries and the final navmesh
\* recompute is not made.
C25_NoRollbackAfterAssertion ==
    [][C25_AssertionStep]_vars /\ []C25_PartialScene

\* reconfigure has failed at its second record and the first record's object
\* is in the engine
C25_Witness ==
    /\ pc = "idle" /\ ret.op = "reconfigure" /\ ret.status = "raised"
    /\ obj_index = 2
    /\ Cardinality(DOMAIN objects) = 1
    /\ DOMAIN objid_to_sim_object_mapping = {1}
    /\ <<"add", CHOOSE id \in DOMAIN objects : TRUE>> \in nav.dirty

\* what a step may do to the template table: nothing, or empty it together
\* with the engine, or register the one path of the record at hand, which was
\* not registered before
C26_TemplateStep ==
    \/ templates' = templates
    \/ templates' = EmptyMap /\ engine'.log = <<"close", "instantiate">>
    \/ /\ pc = "init_loop"
       /\ LET path == habitat_config.scene_state.objects[obj_index].object_template
          IN /\ path \notin DOMAIN templates
             /\ DOMAIN templates' = DOMAIN templates \cup {path}
             /\ \A other \in DOMAIN templates : templates'[other] = templates[other]

\* C26: within one engine instance a template path is loaded and registered
\* at most once, however many records and reconfigures name it: a record whose
\* path is registered reuses the handle, so there is never more than one
\* registered template per path seen.
C26_TemplateLoadedOnce ==
    /\ [][C26_TemplateStep]_vars
    /\ [](\A path \in DOMAIN templates : templates[path].loads = 1)

\* a reconfigure that reused the engine has returned with two objects of the
\* same template, registered once
C26_Witness ==
    /\ pc = "idle" /\ ret = ReturnOk
    /\ is_same_scene /\ engine.log = <<>>
    /\ Cardinality(DOMAIN objects) = 2
    /\ \A id \in DOMAIN objects : objects[id].handle = "chair"
    /\ DOMAIN templates = {"chair"}
    /\ templates["chair"].loads = 1

-----------------------------------------------------------------------------
(* Further properties of the sampler, of the raw output and of the queries *)

\* C27 (as claimed): with maintain_object_up false, the preconditions met and
\* max_tries >= 1, every attempt applies a rotation and reaches the contact
\* test, and the call returns True or False; it does not end with an error.
C27_UnconstrainedRotationReturns ==
    (/\ SamplerOver
     /\ ~frame.maintain_object_up
     /\ frame.max_tries >= 1
     /\ ~UnmetPrecondition)
        => /\ hist.result \in {"True", "False"}
           /\ hist.contact_tests >= 1

\* what a step does to the stored raw output: render, set_agent_state and
\* reconfigure leave it alone; only step, reset and get_observations_at
\* replace it
C28_RawOutputStep ==
    /\ ret'.op \in {"render", "set_agent_state", "reconfigure"} =>
          /\ prev_sim_obs' = prev_sim_obs
          /\ previous_step_collided(prev_sim_obs') = previous_step_collided(prev_sim_obs)
    /\ prev_sim_obs' # prev_sim_obs =>
          ret'.op \in {"step", "reset", "get_observations_at"}

\* C28: the raw output behind previous_step_collided is replaced only by step,
\* reset and get_observations_at; render, set_agent_state and reconfigure
\* leave the flag as it was, so it is still true when one of them follows a
\* step that collided.
C28_FlagKeptByOtherCalls == [][C28_RawOutputStep]_vars

\* a reconfigure that replaced the engine has returned and the flag of the
\* colliding step before it is still true
C28_Witness ==
    /\ ret.op = "reconfigure" /\ ret.status = "ok"
    /\ engine.log = <<"close", "instantiate">>
    /\ previous_step_collided(prev_sim_obs)

\* a call with an episode whose cache is populated searches the goals stored
\* in the cached query and returns the distance to the nearest of them
C29_CachedGoalsStep ==
    (GeodesicStep /\ ret'.episode # "none" /\ cache[ret'.episode] # NoId) =>
        LET cached == paths[cache[ret'.episode]]
            stored == paths'[cache'[ret'.episode]]
        IN /\ ret'.ends = cached.requested_ends
           /\ stored.requested_ends = cached.requested_ends
           /\ ret'.value = <<FoundDistance(stored.requested_start[1], cached.requested_ends)>>

\* C29: when the episode's cache is populated, geodesic_distance searches the
\* goal set the first call for that episode stored; position_b of the later
\* call is not read, so a call with other goals returns the distance to the
\* cached goals.
C29_CachedGoalsUsed == [][C29_CachedGoalsStep]_vars

\* a call that passed a single goal has searched the two goals of the cached
\* query
C29_Witness ==
    /\ ret.op = "geodesic_distance"
    /\ ret.episode # "none"
    /\ ~ret.built
    /\ ~ret.goal_is_list
    /\ Len(ret.ends) = 2

\* C30: whenever reconfigure returns normally, the navmesh has been recomputed
\* after the last removal, insertion, transform change and motion-type change
\* of that reconfigure, whatever the descriptor is: absent, without objects,
\* with positioned objects, with sampled objects, or with both.
C30_NavmeshFreshAfterReconfigure ==
    (pc = "idle" /\ ret = ReturnOk) => nav.dirty = {}

\* reconfigure has returned after a positioned and a sampled object, on an
\* engine it reused
C30_Witness ==
    /\ pc = "idle" /\ ret = ReturnOk
    /\ is_same_scene
    /\ Len(habitat_config.scene_state.objects) = 2
    /\ habitat_config.scene_state.objects[1].position # None
    /\ habitat_config.scene_state.objects[2].position = None
    /\ Cardinality(DOMAIN objects) = 2
    /\ hist.sampler_calls = 1 /\ hist.transform_writes > 0
    /\ nav.dirty = {}
====
